---- MODULE Spec2Model ----
(***************************************************************************)
(* A model of pdns/ixfrutils.cc: the serial-named zone snapshot store      *)
(* (writeZoneToDisk, loadZoneFromDisk), the directory serial index         *)
(* (getSerialsFromDir) and the apex SOA lookup (getSerialFromRecords).     *)
(*                                                                         *)
(* Integers: uint32_t and int are modelled with SerialBits bits instead of *)
(* 32, so that the values where the two types disagree are reachable.      *)
(* Text: a file name is a sequence of one-character strings.               *)
(***************************************************************************)
EXTENDS Integers, Sequences, FiniteSets, TLC

\* ------------------------------------------------------------------ bounds

\* Width of uint32_t / int in the model (32 in the program).
SerialBits == 7
\* Most records of the record set the sequential caller writes.
MaxRecs == 2
\* Most entries of a directory that others filled.
MaxEntries == 2
\* Most lines of a file that others wrote.
MaxLines == 3
\* Most calls of writeZoneToDisk in one behaviour.
MaxCalls == 2
\* Most records in the answer section of a reply.
MaxAnswers == 3

\* ---------------------------------------------------------------- integers

RECURSIVE Pow2(_)
Pow2(n) == IF n = 0 THEN 1 ELSE 2 * Pow2(n - 1)

UIntMax == Pow2(SerialBits) - 1
IntMax == Pow2(SerialBits - 1) - 1
IntMin == 0 - Pow2(SerialBits - 1)

\* uint32_t x = <int>: conversion modulo 2^width.
ToUInt(i) == i % Pow2(SerialBits)
\* int x = <uint32_t>: the value modulo 2^width that fits int.
ToInt(u) == IF ToUInt(u) > IntMax THEN ToUInt(u) - Pow2(SerialBits) ELSE ToUInt(u)

MaxOf(a, b) == IF a >= b THEN a ELSE b

\* -------------------------------------------------------------------- text

Digits == <<"0", "1", "2", "3", "4", "5", "6", "7", "8", "9">>
IsDigit(c) == \E d \in 1..10 : Digits[d] = c
DigitVal(c) == (CHOOSE d \in 1..10 : Digits[d] = c) - 1
IsSpace(c) == c = " "

RECURSIVE ToStringNat(_)
ToStringNat(n) ==
  IF n < 10 THEN <<Digits[n + 1]>>
  ELSE ToStringNat(n \div 10) \o <<Digits[(n % 10) + 1]>>

\* std::to_string(int)
ToStringInt(i) == IF i < 0 THEN <<"-">> \o ToStringNat(0 - i) ELSE ToStringNat(i)
\* std::to_string(uint32_t)
ToStringUInt(u) == ToStringNat(u)

\* atoi: skips white space, takes an optional sign, then the longest run of
\* digits; anything after it is ignored.
RECURSIVE SkipSpace(_)
SkipSpace(s) == IF s # <<>> /\ IsSpace(Head(s)) THEN SkipSpace(Tail(s)) ELSE s

RECURSIVE DigitsValue(_, _)
DigitsValue(s, acc) ==
  IF s # <<>> /\ IsDigit(Head(s))
  THEN DigitsValue(Tail(s), 10 * acc + DigitVal(Head(s)))
  ELSE acc

\* The number the text denotes to atoi, before it is fitted into an int.
AtoiValue(s) ==
  LET t == SkipSpace(s)
  IN  IF t # <<>> /\ Head(t) = "-" THEN 0 - DigitsValue(Tail(t), 0)
      ELSE IF t # <<>> /\ Head(t) = "+" THEN DigitsValue(Tail(t), 0)
      ELSE DigitsValue(t, 0)

\* atoi's result. A value that does not fit int is undefined behaviour: a
\* build whose long is wider than int truncates strtol's result, a build
\* whose long is int saturates.
AtoiOutcomes(s) ==
  LET v == AtoiValue(s)
  IN  IF IntMin <= v /\ v <= IntMax THEN {v}
      ELSE {ToInt(v), IF v < 0 THEN IntMin ELSE IntMax}

\* ----------------------------------------------------------------- records

\* QType codes (QType::SOA and QType::CNAME are the ones the code names).
QType == [NS |-> 2, CNAME |-> 5, SOA |-> 6, TXT |-> 16]
TypeCodes == {QType.NS, QType.CNAME, QType.SOA, QType.TXT}

\* DNSRecordContent::NumberToType and its inverse in the zone parser.
NumberToType(t) ==
  CASE t = QType.NS -> "NS" [] t = QType.CNAME -> "CNAME"
    [] t = QType.SOA -> "SOA" [] t = QType.TXT -> "TXT" [] OTHER -> "TYPE0"
TypeToNumber(s) ==
  IF \E t \in TypeCodes : NumberToType(t) = s
  THEN CHOOSE t \in TypeCodes : NumberToType(t) = s
  ELSE 0

\* A DNSName is its sequence of labels; the root (".") has none. A
\* default-constructed DNSName is unset, which is not the root.
RootName == <<>>
UnsetName == <<"">>
\* The zone every call is made for, and the relative names of the inputs in
\* canonical order (CanonDNSNameCompare: the root sorts first).
Zone == <<"example", "org">>
RelNames == <<RootName, <<"www">>>>
NameRank(n) ==
  IF \E i \in 1..Len(RelNames) : RelNames[i] = n
  THEN CHOOSE i \in 1..Len(RelNames) : RelNames[i] = n
  ELSE 0
isRoot(n) == n = RootName
\* DNSName::makeRelative: the name without the zone's labels at its end; a
\* name outside the zone is left as it is.
IsPartOf(n, zone) ==
  /\ Len(n) >= Len(zone)
  /\ SubSeq(n, Len(n) - Len(zone) + 1, Len(n)) = zone
makeRelative(n, zone) ==
  IF IsPartOf(n, zone) THEN SubSeq(n, 1, Len(n) - Len(zone)) ELSE n

\* A record's content: SOARecordContent (d_st.serial), any other content
\* (its zone representation), or no content (a null d_content).
SOAContent(serial) == [kind |-> "SOA", serial |-> serial, text |-> <<>>]
OtherContent(text) == [kind |-> "other", serial |-> 0, text |-> text]
NullContent == [kind |-> "null", serial |-> 0, text |-> <<>>]

DNSRecord(name, type, ttl, content) ==
  [d_name |-> name, d_type |-> type, d_ttl |-> ttl, d_content |-> content]
\* DNSRecord soa; (a default-constructed record)
DefaultRecord == DNSRecord(UnsetName, 0, 0, NullContent)

\* records_t: the records in the order of its first index, which is ordered
\* by (d_name, d_type); equal keys keep their insertion order.
KeyLeq(a, b) ==
  \/ NameRank(a.d_name) < NameRank(b.d_name)
  \/ /\ NameRank(a.d_name) = NameRank(b.d_name)
     /\ a.d_type <= b.d_type

\* records.insert(r): after the last record whose key is not greater.
Insert(recs, r) ==
  LET k == Cardinality({i \in 1..Len(recs) : KeyLeq(recs[i], r)})
  IN  SubSeq(recs, 1, k) \o <<r>> \o SubSeq(recs, k + 1, Len(recs))

\* records.equal_range(tie(root, t)): the positions of the matching records.
\* A lookup by type alone, whatever the name.
EqualRangeAnyName(recs, name, type) == {i \in 1..Len(recs) : recs[i].d_type = type}
EqualRange(recs, name, type) ==
  {i \in 1..Len(recs) : recs[i].d_name = name /\ recs[i].d_type = type}

Min(S) == CHOOSE x \in S : \A y \in S : x <= y

\* getSerialFromRecords(records, soaret): what it returns and what it
\* leaves in soaret. With a match whose content is not an SOARecordContent
\* the cast yields null and soa->d_st.serial reads through the null pointer:
\* the call faults, after soaret was assigned.
getSerialFromRecords(recs, soaret) ==
  LET found == EqualRange(recs, RootName, QType.SOA)
  IN  IF found = {}
      THEN {[fault |-> FALSE, serial |-> 0, soaret |-> soaret]}
      ELSE LET r == recs[Min(found)]
           IN  IF r.d_content.kind = "SOA"
               THEN {[fault |-> FALSE, serial |-> r.d_content.serial, soaret |-> r]}
               ELSE {[fault |-> TRUE, serial |-> 0, soaret |-> r]}

\* ----------------------------------------------------------- remote serial

\* RCode::to_s of the reply's rcode, for the codes the replies here carry.
RCodes == {0, 2, 3, 5}
RCodeToS(rc) ==
  CASE rc = 0 -> "No Error"
    [] rc = 2 -> "Server Failure"
    [] rc = 3 -> "Non-Existent domain"
    [] rc = 5 -> "Query Refused"
    [] OTHER -> "Err"

\* master.toStringWithPort()
toStringWithPort(master) == <<master.ip, ":", master.port>>

\* The packet sent: a question for the zone's SOA, signed when the TSIG
\* triplet names an algorithm.
QueryPacket(zone, tt) ==
  [qname |-> zone, qtype |-> QType.SOA,
   tsig |-> IF tt.algo # ""
            THEN [algo |-> tt.algo, fudge |-> 300, eRcode |-> 0, name |-> tt.name]
            ELSE [algo |-> "", fudge |-> 0, eRcode |-> 0, name |-> ""]]

\* The message of the runtime_error, in its parts.
RemoteError(master, rcode) ==
  <<"Unable to retrieve SOA serial from master '">> \o toStringWithPort(master)
    \o <<"': ", RCodeToS(rcode)>>

\* getRR<SOARecordContent>(r) with the content cast wrongly for any content:
\* what a static cast would give.
getRRUnchecked(r) == r.d_content
\* getRR<SOARecordContent>(r): the record's content when it is an
\* SOARecordContent, null otherwise.
getRR(r) == IF r.d_content.kind = "SOA" THEN r.d_content ELSE NullContent

\* for(const auto& r: mdp.d_answers) from the answers left: what the call
\* returns, what it leaves in sr, and how many answers the loop looked at.
RECURSIVE AnswersLoop(_, _, _)
AnswersLoop(answers, sr, seen) ==
  IF answers = <<>>
  THEN [threw |-> FALSE, msg |-> <<>>, ret |-> 0, sr |-> sr, seen |-> seen]
  ELSE LET r == Head(answers)
       IN  IF r.d_type = QType.SOA
           THEN IF getRR(r) # NullContent
                THEN [threw |-> FALSE, msg |-> <<>>, ret |-> getRR(r).serial,
                      sr |-> getRR(r), seen |-> seen + 1]
                ELSE AnswersLoop(Tail(answers), getRR(r), seen + 1)
           ELSE AnswersLoop(Tail(answers), sr, seen + 1)

\* getSerialFromMaster with the rcode test left out.
getSerialFromMasterAnyRcode(master, reply, sr) == AnswersLoop(reply.answers, sr, 0)
\* getSerialFromMaster(master, zone, sr, tt) once the reply is parsed.
getSerialFromMaster(master, reply, sr) ==
  IF reply.rcode # 0
  THEN [threw |-> TRUE, msg |-> RemoteError(master, reply.rcode), ret |-> 0,
        sr |-> sr, seen |-> 0]
  ELSE AnswersLoop(reply.answers, sr, 0)

\* ------------------------------------------------------------- file format

\* One line of a snapshot file. A hole is what reading finds where nothing
\* was written (a write past the end of a file that was cut meanwhile).
OriginLine(zone) ==
  [kind |-> "origin", name |-> zone, type |-> "", content |-> <<>>]
RecordLine(name, type, content) ==
  [kind |-> "rr", name |-> name, type |-> type, content |-> content]
HoleLine == [kind |-> "hole", name |-> <<>>, type |-> "", content |-> <<>>]

\* getZoneRepresentation: an SOA's text carries its serial in decimal.
getZoneRepresentation(c) ==
  IF c.kind = "SOA" THEN ToStringUInt(c.serial) ELSE c.text

\* The fprintf of one record: "@" or the name without its last dot, the
\* class IN, the type's name and the content; the TTL is not written.
RenderLine(r) ==
  RecordLine(IF isRoot(r.d_name) THEN <<"@">> ELSE r.d_name,
             NumberToType(r.d_type),
             getZoneRepresentation(r.d_content))

\* An output without the closing SOA.
OutRecordsNoTrailer(soa, recs) == <<soa>> \o recs
\* for(outer : {soarecord, records, soarecord}) for(r : outer): the records
\* in the order they are written.
OutRecords(soa, recs) == <<soa>> \o recs \o <<soa>>

\* The whole file a call writes when every record has a content.
SnapshotLines(soa, recs, zone) ==
  <<OriginLine(zone)>>
    \o [i \in 1..Len(OutRecords(soa, recs)) |-> RenderLine(OutRecords(soa, recs)[i])]

\* ------------------------------------------------------------ zone parser

\* The state of loadZoneFromDisk's loop: the record set, seenSOA, the type
\* of the last rr the parser filled in (0 before the first, as in a
\* default-constructed DNSResourceRecord), nrecords and the parser's origin.
LoadState(recs, zone) ==
  [records |-> recs, seenSOA |-> FALSE, qtype |-> 0, nrecords |-> 0,
   origin |-> zone, threw |-> FALSE]

IsNumber(text) == text # <<>> /\ \A i \in 1..Len(text) : IsDigit(text[i])

\* DNSRecord(rr): the content made from the parsed text for the type.
\* An SOA's text must hold its serial; anything else cannot be made.
CanMakeContent(type, text) == type # QType.SOA \/ IsNumber(text)
MakeContent(type, text) ==
  IF type = QType.SOA THEN SOAContent(DigitsValue(text, 0)) ELSE OtherContent(text)

\* ZoneParserTNG: the name a line's first field denotes under the origin.
ParseName(name, origin) == IF name = <<"@">> THEN origin ELSE name \o origin

\* A turn of the loop that inserts every record, SOA or not.
LoadRecordInsertAll(st, line, zone, pttl) ==
  LET qtype == TypeToNumber(line.type)
      qname == makeRelative(ParseName(line.name, st.origin), zone)
      seen == [st EXCEPT !.qtype = qtype, !.nrecords = @ + 1]
  IN  IF CanMakeContent(qtype, line.content)
      THEN [seen EXCEPT
              !.records = Insert(@, DNSRecord(qname, qtype, pttl,
                                              MakeContent(qtype, line.content))),
              !.seenSOA = (@ \/ qtype = QType.SOA)]
      ELSE [seen EXCEPT !.threw = TRUE]

\* One turn of while(zpt.get(rr)) { ... } on a record line; pttl is the TTL
\* the parser gives a record whose line carries none.
LoadRecord(st, line, zone, pttl) ==
  LET qtype == TypeToNumber(line.type)
      content == IF qtype = QType.CNAME /\ line.content = <<>>
                 THEN <<".">> ELSE line.content
      qname == makeRelative(ParseName(line.name, st.origin), zone)
      seen == [st EXCEPT !.qtype = qtype, !.nrecords = @ + 1]
  IN  IF qtype # QType.SOA \/ st.seenSOA = FALSE
      THEN IF CanMakeContent(qtype, content)
           THEN [seen EXCEPT
                   !.records = Insert(@, DNSRecord(qname, qtype, pttl,
                                                   MakeContent(qtype, content))),
                   !.seenSOA = (@ \/ qtype = QType.SOA)]
           ELSE [seen EXCEPT !.threw = TRUE]
      ELSE [seen EXCEPT !.seenSOA = TRUE]

\* The loop over the lines the parser is given, until it is out of lines or
\* something throws (a line that is no record, a content that cannot be made).
RECURSIVE LoadLoop(_, _, _, _)
LoadLoop(lines, st, zone, pttl) ==
  IF lines = <<>> \/ st.threw THEN st
  ELSE LET line == Head(lines)
       IN  CASE line.kind = "origin" ->
                  LoadLoop(Tail(lines), [st EXCEPT !.origin = line.name], zone, pttl)
             [] line.kind = "rr" ->
                  LoadLoop(Tail(lines), LoadRecord(st, line, zone, pttl), zone, pttl)
             [] OTHER -> [st EXCEPT !.threw = TRUE]

\* A completeness test that asks only whether an SOA was seen.
ZoneCompleteSeenOnly(st) == st.seenSOA
\* if(rr.qtype.getCode() == QType::SOA && seenSOA)
ZoneComplete(st) == st.qtype = QType.SOA /\ st.seenSOA

\* The loader without its records.clear(): a zone found not complete is
\* reported, the records left in place.
loadZoneFromDiskNoClear(recs, lines, zone, pttl) ==
  LET st == LoadLoop(lines, LoadState(recs, zone), zone, pttl)
  IN  IF st.threw
      THEN [records |-> st.records, result |-> "parse-error"]
      ELSE IF ZoneComplete(st)
      THEN [records |-> st.records, result |-> "ok"]
      ELSE [records |-> st.records, result |-> "not-complete"]

\* loadZoneFromDisk(records, fname, zone) on a file with these lines: the
\* caller's record set afterwards and how the call ended.
loadZoneFromDisk(recs, lines, zone, pttl) ==
  LET st == LoadLoop(lines, LoadState(recs, zone), zone, pttl)
  IN  IF st.threw
      THEN [records |-> st.records, result |-> "parse-error"]
      ELSE IF ZoneComplete(st)
      THEN [records |-> st.records, result |-> "ok"]
      ELSE [records |-> <<>>, result |-> "not-complete"]

\* ------------------------------------------------------------- file system

VARIABLES
  dir,        \* the store directory: file name -> inode
  inodes,     \* inode -> the file's lines
  pc,         \* writeZoneToDisk, per caller: "idle", "write" or "rename"
  wrecs,      \* ... its argument records
  wsoa,       \* ... its local soa
  wserial,    \* ... its local serial (an int)
  wfd,        \* ... the inode its FILE* fp writes to (0: none)
  wpos,       \* ... the lines written through fp so far
  wout,       \* ... how its last call ended: "none", "ok", "io-error", "fault"
  wprev,      \* ... what the final name held when the call opened its file
  wrenamed,   \* ... whether the last call's rename took effect
  calls,      \* calls of writeZoneToDisk started so far
  whist,      \* the calls that ended: the serial looked up and how each ended
  rfd,        \* the reader: the inode it opened under a final name (0: none)
  rallowed,   \* ... what the spec allows it to find under that name
  observed,   \* ... what it read
  records,    \* loadZoneFromDisk: the caller's record set
  loadResult, \* ... how the last call ended
  loadArgs,   \* ... the file it was given and where its input ended
  parserTTL,  \* the TTL the zone parser gives a record whose line has none
  input,      \* the record set the sequential caller holds to write
  ret,        \* getSerialsFromDir: the value returned
  scanResult, \* ... how the last call ended: "none", "ok", "io-error"
  query,      \* getSerialFromMaster: the last call, what it was given and gave
  lookup      \* getSerialFromRecords: the last call, what it was given and gave

vars == <<dir, inodes, pc, wrecs, wsoa, wserial, wfd, wpos, wout, wprev,
          wrenamed, calls, whist, rfd, rallowed, observed, records, loadResult,
          loadArgs, parserTTL, input, ret, scanResult, query, lookup>>
writerVars == <<pc, wrecs, wsoa, wserial, wfd, wpos, wout, wprev, wrenamed, calls,
                whist>>
readerVars == <<rfd, rallowed, observed>>
loaderVars == <<records, loadResult, loadArgs>>
scanVars == <<ret, scanResult>>
callVars == <<query, lookup>>

Writers == {1, 2}

\* The caller's view between calls: records, loadResult, ret and scanResult
\* hold what the last call of the loader or of the index left; a call of
\* another operation starts from a caller that holds nothing.
NoLoad == [name |-> <<>>, cut |-> 0, had |-> <<>>]

\* query and lookup before any call of getSerialFromMaster and of
\* getSerialFromRecords.
NoTSIG == [algo |-> "", name |-> "", secret |-> ""]
NoQuery ==
  [called |-> FALSE, master |-> [ip |-> "", port |-> ""],
   sent |-> QueryPacket(Zone, NoTSIG), reply |-> [rcode |-> 0, answers |-> <<>>],
   before |-> NullContent, out |-> AnswersLoop(<<>>, NullContent, 0)]
NoLookup ==
  [called |-> FALSE, recs |-> <<>>, before |-> DefaultRecord,
   out |-> [fault |-> FALSE, serial |-> 0, soaret |-> DefaultRecord]]

Partial == <<".", "p", "a", "r", "t", "i", "a", "l">>

EndsInPartial(n) ==
  Len(n) > Len(Partial) /\ SubSeq(n, Len(n) - Len(Partial) + 1, Len(n)) = Partial

\* What opening a name finds.
NoFile == [exists |-> FALSE, lines |-> <<>>]
File(lines) == [exists |-> TRUE, lines |-> lines]
Lookup(d, ino, name) == IF name \in DOMAIN d THEN File(ino[d[name]]) ELSE NoFile

Range(f) == {f[x] : x \in DOMAIN f}
FreshInode(ino) == Min({n \in 1..(Cardinality(DOMAIN ino) + 1) : n \notin DOMAIN ino})

\* An inode lives while a name or an open file refers to it.
Live(d, ino, fds) == [n \in (DOMAIN ino) \cap (Range(d) \cup fds) |-> ino[n]]

\* fopen(name, "w"): an existing file is cut to nothing, a missing one made.
FopenInode(d, ino, name) == IF name \in DOMAIN d THEN d[name] ELSE FreshInode(ino)
FopenDir(d, ino, name) == (name :> FopenInode(d, ino, name)) @@ d
FopenInodes(d, ino, name) == (FopenInode(d, ino, name) :> <<>>) @@ ino

\* A write of one line at line offset pos of a file.
WriteAt(lines, pos, line) ==
  [i \in 1..MaxOf(Len(lines), pos + 1) |->
     IF i = pos + 1 THEN line
     ELSE IF i <= Len(lines) THEN lines[i] ELSE HoleLine]

\* rename(old, new), old existing: new names old's file, old is gone.
RenameDir(d, old, new) ==
  [n \in (DOMAIN d \ {old}) \cup {new} |-> IF n = new THEN d[old] ELSE d[n]]

\* What readdir yields: the directory's names and the entries "." and "..".
DirEntries(d) == DOMAIN d \cup {<<".">>, <<".", ".">>}

\* The loop of getSerialsFromDir over the entries left, from `acc`: every
\* value it can end with.
RECURSIVE ScanFrom(_, _)
ScanFrom(names, acc) ==
  IF names = {} THEN {acc}
  ELSE LET n == CHOOSE x \in names : TRUE
       IN  UNION { ScanFrom(names \ {n},
                            IF ToStringUInt(ToUInt(a)) = n
                            THEN MaxOf(ToUInt(a), acc) ELSE acc)
                   : a \in AtoiOutcomes(n) }

\* ------------------------------------------------------------------ writer

\* A call that ended, as the history keeps it.
Ended(serial, out) == [serial |-> serial, out |-> out]

\* string fname = directory + "/" + std::to_string(serial), serial an int.
FinalName(serial) == ToStringInt(serial)
\* The name a writer without a temporary file would open: the final name.
PartialNameInPlace(serial) == FinalName(serial)
PartialName(serial) == FinalName(serial) \o Partial

\* The inodes held open, and those held open once caller w lets go of its own.
OpenFds == {wfd[w] : w \in Writers} \cup {rfd}
FdsBut(w) == {wfd[v] : v \in Writers \ {w}} \cup {rfd}

\* writeZoneToDisk up to its fopen: the serial is looked up, the name made
\* and the temporary file opened; the call ends here when the lookup faults
\* or the file cannot be opened.
WriteStart(w, recs, openOk) ==
  /\ pc[w] = "idle"
  /\ \E g \in getSerialFromRecords(recs, DefaultRecord) :
       LET serial == ToInt(g.serial)
           name == PartialName(serial)
       IN  /\ wrecs' = [wrecs EXCEPT ![w] = recs]
           /\ wsoa' = [wsoa EXCEPT ![w] = g.soaret]
           /\ wserial' = [wserial EXCEPT ![w] = serial]
           /\ wrenamed' = [wrenamed EXCEPT ![w] = FALSE]
           /\ wpos' = [wpos EXCEPT ![w] = 0]
           /\ calls' = calls + 1
           /\ \/ /\ g.fault
                 /\ wout' = [wout EXCEPT ![w] = "fault"]
                 /\ whist' = whist \cup {Ended(g.serial, "fault")}
                 /\ UNCHANGED <<dir, inodes, pc, wfd, wprev>>
              \/ /\ ~g.fault /\ ~openOk
                 /\ wout' = [wout EXCEPT ![w] = "io-error"]
                 /\ whist' = whist \cup {Ended(g.serial, "io-error")}
                 /\ UNCHANGED <<dir, inodes, pc, wfd, wprev>>
              \/ /\ ~g.fault /\ openOk
                 /\ dir' = FopenDir(dir, inodes, name)
                 /\ inodes' = FopenInodes(dir, inodes, name)
                 /\ wfd' = [wfd EXCEPT ![w] = FopenInode(dir, inodes, name)]
                 /\ wprev' = [wprev EXCEPT ![w] = Lookup(dir, inodes, FinalName(serial))]
                 /\ wout' = [wout EXCEPT ![w] = "none"]
                 /\ pc' = [pc EXCEPT ![w] = "write"]
                 /\ UNCHANGED whist
  /\ records' = <<>>
  /\ loadResult' = "none"
  /\ loadArgs' = NoLoad
  /\ ret' = 0
  /\ scanResult' = "none"
  /\ UNCHANGED <<readerVars, parserTTL, input, callVars>>

\* One fprintf: the $ORIGIN line first, then a record per call. A record
\* without content (the default soa of a set with no apex SOA) cannot be
\* printed: r.d_content-> goes through a null pointer and the call faults,
\* leaving the temporary file as it is.
WriteLine(w) ==
  /\ pc[w] = "write"
  /\ wpos[w] <= Len(OutRecords(wsoa[w], wrecs[w]))
  /\ \/ /\ wpos[w] = 0
        /\ inodes' = [inodes EXCEPT ![wfd[w]] = WriteAt(@, 0, OriginLine(Zone))]
        /\ wpos' = [wpos EXCEPT ![w] = 1]
        /\ UNCHANGED <<pc, wfd, wout, whist>>
     \/ /\ wpos[w] > 0
        /\ OutRecords(wsoa[w], wrecs[w])[wpos[w]].d_content.kind # "null"
        /\ inodes' = [inodes EXCEPT ![wfd[w]] =
                        WriteAt(@, wpos[w],
                                RenderLine(OutRecords(wsoa[w], wrecs[w])[wpos[w]]))]
        /\ wpos' = [wpos EXCEPT ![w] = @ + 1]
        /\ UNCHANGED <<pc, wfd, wout, whist>>
     \/ /\ wpos[w] > 0
        /\ OutRecords(wsoa[w], wrecs[w])[wpos[w]].d_content.kind = "null"
        /\ inodes' = Live(dir, inodes, FdsBut(w))
        /\ wfd' = [wfd EXCEPT ![w] = 0]
        /\ wout' = [wout EXCEPT ![w] = "fault"]
        /\ whist' = whist \cup {Ended(ToUInt(wserial[w]), "fault")}
        /\ pc' = [pc EXCEPT ![w] = "idle"]
        /\ UNCHANGED wpos
  /\ UNCHANGED <<dir, wrecs, wsoa, wserial, wprev, wrenamed, calls,
                 readerVars, loaderVars, parserTTL, input, callVars, scanVars>>

\* fclose(fp), after the last line.
WriteClose(w) ==
  /\ pc[w] = "write"
  /\ wpos[w] = Len(OutRecords(wsoa[w], wrecs[w])) + 1
  /\ inodes' = Live(dir, inodes, FdsBut(w))
  /\ wfd' = [wfd EXCEPT ![w] = 0]
  /\ pc' = [pc EXCEPT ![w] = "rename"]
  /\ UNCHANGED <<dir, wrecs, wsoa, wserial, wpos, wout, wprev, wrenamed, calls,
                 whist, readerVars, loaderVars, parserTTL, input, callVars, scanVars>>

\* rename(fname + ".partial", fname), its result not looked at: the call
\* returns normally whether or not the rename took effect. It has no effect
\* when the system refuses it or the temporary name is gone.
WriteRename(w, renameOk) ==
  /\ pc[w] = "rename"
  /\ \/ /\ renameOk /\ PartialName(wserial[w]) \in DOMAIN dir
        /\ dir' = RenameDir(dir, PartialName(wserial[w]), FinalName(wserial[w]))
        /\ inodes' = Live(dir', inodes, OpenFds)
        /\ wrenamed' = [wrenamed EXCEPT ![w] = TRUE]
     \/ /\ ~renameOk \/ PartialName(wserial[w]) \notin DOMAIN dir
        /\ UNCHANGED <<dir, inodes, wrenamed>>
  /\ wout' = [wout EXCEPT ![w] = "ok"]
  /\ whist' = whist \cup {Ended(ToUInt(wserial[w]), "ok")}
  /\ pc' = [pc EXCEPT ![w] = "idle"]
  /\ UNCHANGED <<wrecs, wsoa, wserial, wfd, wpos, wprev, calls,
                 readerVars, loaderVars, parserTTL, input, callVars, scanVars>>

\* ------------------------------------------------------------------ reader

\* Some other process opens a name of the store for reading. rallowed is
\* what the spec lets it find there: without a call at work on that name,
\* the file as it is; with one, what the name held before the call and what
\* the call is writing, complete.
RunningOn(name) == {w \in Writers : pc[w] # "idle" /\ FinalName(wserial[w]) = name}
Allowed(name) ==
  IF RunningOn(name) = {} THEN {Lookup(dir, inodes, name)}
  ELSE {wprev[w] : w \in RunningOn(name)}
       \cup {File(SnapshotLines(wsoa[w], wrecs[w], Zone)) : w \in RunningOn(name)}

ReaderOpen(name) ==
  /\ rfd = 0
  /\ rallowed' = Allowed(name)
  /\ \/ /\ name \in DOMAIN dir
        /\ rfd' = dir[name]
        /\ observed' = NoFile
     \/ /\ name \notin DOMAIN dir
        /\ rfd' = 0
        /\ observed' = NoFile
  /\ UNCHANGED <<dir, inodes, writerVars, loaderVars, parserTTL, input, callVars, scanVars>>

\* It reads the file it opened, to its end, and closes it.
ReaderRead ==
  /\ rfd # 0
  /\ observed' = File(inodes[rfd])
  /\ rfd' = 0
  /\ inodes' = Live(dir, inodes, {wfd[w] : w \in Writers})
  /\ UNCHANGED <<dir, rallowed, writerVars, loaderVars, parserTTL, input, callVars, scanVars>>

\* ------------------------------------------------------------------ loader

\* loadZoneFromDisk(records, fname, zone) by a caller whose record set holds
\* `had`. The parser's input ends after `cut` lines: at the end of the file,
\* or before it. A file that is not there cannot be opened.
LoadZoneFromDisk(name, cut, had) ==
  /\ \/ /\ name \in DOMAIN dir
        /\ cut \in 0..Len(inodes[dir[name]])
        /\ LET r == loadZoneFromDisk(had, SubSeq(inodes[dir[name]], 1, cut),
                                     Zone, parserTTL)
           IN  /\ records' = r.records
               /\ loadResult' = r.result
     \/ /\ name \notin DOMAIN dir
        /\ cut = 0
        /\ records' = had
        /\ loadResult' = "io-error"
  /\ loadArgs' = [name |-> name, cut |-> cut, had |-> had]
  /\ ret' = 0
  /\ scanResult' = "none"
  /\ UNCHANGED <<dir, inodes, writerVars, readerVars, parserTTL, input, callVars>>

\* ------------------------------------------------------------------- index

\* getSerialsFromDir(dir): opendir fails and it throws, or it runs its loop.
GetSerialsFromDir(openOk) ==
  /\ \/ /\ ~openOk
        /\ scanResult' = "io-error"
        /\ ret' = 0
     \/ /\ openOk
        /\ ret' \in ScanFrom(DirEntries(dir), 0)
        /\ scanResult' = "ok"
  /\ records' = <<>>
  /\ loadResult' = "none"
  /\ loadArgs' = NoLoad
  /\ UNCHANGED <<dir, inodes, writerVars, readerVars, parserTTL, input, callVars>>

\* ---------------------------------------------------------- remote serial

\* getSerialFromMaster(master, zone, sr, tt): the query goes out, the reply
\* comes in and is parsed, and the call returns a serial or throws.
GetSerialFromMaster(master, tt, reply, sr) ==
  /\ query' = [called |-> TRUE, master |-> master, sent |-> QueryPacket(Zone, tt),
               reply |-> reply, before |-> sr,
               out |-> getSerialFromMaster(master, reply, sr)]
  /\ UNCHANGED <<dir, inodes, writerVars, readerVars, loaderVars, parserTTL,
                 input, scanVars, lookup>>

\* ------------------------------------------------------------- apex lookup

\* getSerialFromRecords(records, soaret) called on its own.
GetSerialFromRecords(recs, soaret) ==
  /\ \E g \in getSerialFromRecords(recs, soaret) :
       lookup' = [called |-> TRUE, recs |-> recs, before |-> soaret, out |-> g]
  /\ UNCHANGED <<dir, inodes, writerVars, readerVars, loaderVars, parserTTL,
                 input, scanVars, query>>

\* ------------------------------------------------------------------ inputs

TTLs == {300, 3600}
\* Serials below and above the largest int.
Serials == {5, IntMax + 1}

ApexSOA(serial, ttl) == DNSRecord(RootName, QType.SOA, ttl, SOAContent(serial))
ApexNS == DNSRecord(RootName, QType.NS, 3600, OtherContent(<<"n", "s">>))
WwwTXT(text) == DNSRecord(<<"www">>, QType.TXT, 300, OtherContent(text))
WwwSOA == DNSRecord(<<"www">>, QType.SOA, 3600, SOAContent(5))
\* A record of type SOA at the apex whose content is no SOARecordContent.
OddSOA == DNSRecord(RootName, QType.SOA, 3600, OtherContent(<<"x">>))

AllRecords ==
  {ApexSOA(5, t) : t \in TTLs}
    \cup {ApexSOA(s, 3600) : s \in Serials}
    \cup {ApexNS, WwwTXT(<<"t">>), WwwSOA, OddSOA}

\* Every record set of at most n records, as records_t holds it.
RECURSIVE RecordSets(_)
RecordSets(n) ==
  IF n = 0 THEN {<<>>}
  ELSE RecordSets(n - 1)
         \cup {Insert(rs, r) : rs \in RecordSets(n - 1), r \in AllRecords}

Inputs == RecordSets(MaxRecs)
\* What the loader's caller may hold when it calls.
PriorSets == {<<>>, <<WwwTXT(<<"o">>)>>}

\* The record sets the interleaved callers write.
FewRecordSets ==
  { <<ApexSOA(5, 3600)>>,
    <<ApexNS, ApexSOA(5, 3600), WwwTXT(<<"t">>)>>,
    <<ApexSOA(5, 3600), WwwTXT(<<"u">>)>>,
    <<ApexSOA(42, 3600), WwwTXT(<<"t">>)>>,
    <<ApexSOA(IntMax + 1, 3600)>>,
    <<WwwTXT(<<"t">>)>>,
    <<OddSOA>> }

\* ----------------------------------------------------------- specifications

InitIdle ==
  /\ pc = [w \in Writers |-> "idle"]
  /\ wrecs = [w \in Writers |-> <<>>]
  /\ wsoa = [w \in Writers |-> DefaultRecord]
  /\ wserial = [w \in Writers |-> 0]
  /\ wfd = [w \in Writers |-> 0]
  /\ wpos = [w \in Writers |-> 0]
  /\ wout = [w \in Writers |-> "none"]
  /\ wprev = [w \in Writers |-> NoFile]
  /\ wrenamed = [w \in Writers |-> FALSE]
  /\ calls = 0
  /\ whist = {}
  /\ rfd = 0
  /\ rallowed = {}
  /\ observed = NoFile
  /\ records = <<>>
  /\ loadResult = "none"
  /\ loadArgs = NoLoad
  /\ ret = 0
  /\ scanResult = "none"
  /\ query = NoQuery
  /\ lookup = NoLookup

EmptyDir == <<>>

\* The store starts empty; what the parser does for a TTL is its own affair.
Init ==
  /\ InitIdle
  /\ dir = EmptyDir
  /\ inodes = <<>>
  /\ parserTTL \in TTLs
  /\ input \in Inputs

\* A call of writeZoneToDisk(recs, Zone, dir): it starts, and goes on step by
\* step to its end.
WriteCall(w, recs) ==
  \E openOk \in BOOLEAN : calls < MaxCalls /\ WriteStart(w, recs, openOk)
WriteStep(w) ==
  \/ WriteLine(w)
  \/ WriteClose(w)
  \/ \E renameOk \in BOOLEAN : WriteRename(w, renameOk)

Idle == \A w \in Writers : pc[w] = "idle"

\* The names a caller asks the loader for: what the store holds, and the
\* serials in decimal.
LoadNames == DOMAIN dir \cup {ToStringUInt(s) : s \in Serials}

\* One caller, one call at a time: it writes its record set, loads a file of
\* the store, or asks for the highest serial.
Next ==
  \/ WriteCall(1, input)
  \/ WriteStep(1)
  \/ \E name \in LoadNames, cut \in 0..(MaxRecs + 3), had \in PriorSets :
       Idle /\ LoadZoneFromDisk(name, cut, had)
  \/ \E openOk \in BOOLEAN : Idle /\ GetSerialsFromDir(openOk)

Spec == Init /\ [][Next]_vars

\* The caller that only writes its record set, call after call.
NextWrite ==
  \/ WriteCall(1, input)
  \/ WriteStep(1)

SpecWrite == Init /\ [][NextWrite]_vars

\* The same caller, writing one record set after another.
InitFew ==
  /\ InitIdle
  /\ dir = EmptyDir
  /\ inodes = <<>>
  /\ parserTTL = 3600
  /\ input = <<>>

NextRepeat ==
  \/ \E recs \in FewRecordSets : WriteCall(1, recs)
  \/ WriteStep(1)
  \/ \E name \in LoadNames, had \in PriorSets :
       /\ Idle
       /\ LoadZoneFromDisk(name, IF name \in DOMAIN dir THEN Len(inodes[dir[name]]) ELSE 0, had)
  \/ \E openOk \in BOOLEAN : Idle /\ GetSerialsFromDir(openOk)

SpecRepeat == InitFew /\ [][NextRepeat]_vars

\* One caller writing, and a reader that opens a final name, directory/S,
\* and reads at any time.
ReaderNames ==
  {n \in DOMAIN dir : ~EndsInPartial(n)} \cup {ToStringUInt(s) : s \in Serials}

NextReader ==
  \/ \E recs \in FewRecordSets : WriteCall(1, recs)
  \/ WriteStep(1)
  \/ \E name \in ReaderNames : ReaderOpen(name)
  \/ ReaderRead

SpecReader == InitFew /\ [][NextReader]_vars

\* Two callers writing at the same time, and the reader.
NextWriters ==
  \/ \E w \in Writers, recs \in FewRecordSets : WriteCall(w, recs)
  \/ \E w \in Writers : WriteStep(w)
  \/ \E name \in ReaderNames : ReaderOpen(name)
  \/ ReaderRead

SpecWriters == InitFew /\ [][NextWriters]_vars

\* Two callers writing, and the index asked at any time between their steps.
NextIndex ==
  \/ \E w \in Writers, recs \in FewRecordSets : WriteCall(w, recs)
  \/ \E w \in Writers : WriteStep(w)
  \/ \E openOk \in BOOLEAN : GetSerialsFromDir(openOk)

SpecIndex == InitFew /\ [][NextIndex]_vars

\* The same with one caller writing.
NextIndexOne ==
  \/ \E recs \in FewRecordSets : WriteCall(1, recs)
  \/ WriteStep(1)
  \/ \E openOk \in BOOLEAN : GetSerialsFromDir(openOk)

SpecIndexOne == InitFew /\ [][NextIndexOne]_vars

\* The loader on files that others wrote: any lines at all.
AllLines ==
  {RenderLine(r) : r \in AllRecords}
    \cup {RecordLine(<<"www">>, "CNAME", <<>>),
          OriginLine(Zone), OriginLine(<<"net">>), HoleLine}

RECURSIVE Files(_)
Files(n) ==
  IF n = 0 THEN {<<>>}
  ELSE Files(n - 1) \cup {Append(f, l) : f \in Files(n - 1), l \in AllLines}

ForeignName == <<"z", "o", "n", "e">>

InitLoad ==
  /\ InitIdle
  /\ dir = (ForeignName :> 1)
  /\ \E f \in Files(MaxLines) : inodes = (1 :> f)
  /\ parserTTL = 3600
  /\ input = <<>>

NextLoad ==
  \E had \in PriorSets :
    LoadZoneFromDisk(ForeignName, Len(inodes[dir[ForeignName]]), had)

SpecLoad == InitLoad /\ [][NextLoad]_vars

\* The index on directories that others filled: any names at all.
OtherNames ==
  { <<"0">>, <<"5">>, <<"1", "0">>, <<"4", "2">>, <<"0", "0", "7">>, <<"0", "5">>,
    <<"a", "b", "c">>, <<"3">> \o Partial, <<"5", "a">>,
    <<"-", "5">>, <<"+", "5">>, <<" ", "5">>,
    ToStringInt(IntMin), ToStringUInt(IntMax), ToStringUInt(IntMax + 1),
    ToStringUInt(UIntMax), ToStringUInt(UIntMax + 1) }

ExampleNames ==
  { <<"5">>, <<"1", "0">>, <<"a", "b", "c">>, <<"3">> \o Partial, <<"0", "0", "7">> }

InitDir ==
  /\ InitIdle
  /\ \E names \in SUBSET OtherNames :
       /\ Cardinality(names) <= MaxEntries \/ names = ExampleNames
       /\ dir = [n \in names |-> 1]
       /\ inodes = IF names = {} THEN <<>> ELSE (1 :> <<>>)
  /\ parserTTL = 3600
  /\ input = <<>>

NextDir == \E openOk \in BOOLEAN : GetSerialsFromDir(openOk)

SpecDir == InitDir /\ [][NextDir]_vars

\* The remote query on any reply: any rcode, any answers.
Masters == {[ip |-> "192.0.2.1", port |-> "53"], [ip |-> "2001:db8::1", port |-> "5300"]}
Triplets == {NoTSIG, [algo |-> "hmac-sha256", name |-> "key", secret |-> "s"]}
AnswerRecords ==
  {ApexSOA(0, 3600), ApexSOA(5, 3600), ApexSOA(IntMax + 1, 3600), OddSOA, ApexNS}

RECURSIVE AnswerSeqs(_)
AnswerSeqs(n) ==
  IF n = 0 THEN {<<>>}
  ELSE AnswerSeqs(n - 1)
         \cup {Append(a, r) : a \in AnswerSeqs(n - 1), r \in AnswerRecords}

Replies == [rcode : RCodes, answers : AnswerSeqs(MaxAnswers)]
\* What the caller's sr may hold when it calls.
PriorSR == {NullContent, SOAContent(1)}

InitQuery ==
  /\ InitIdle
  /\ dir = EmptyDir
  /\ inodes = <<>>
  /\ parserTTL = 3600
  /\ input = <<>>

\* One call in a behaviour: a call depends on no call before it.
NextQuery ==
  \E master \in Masters, tt \in Triplets, reply \in Replies, sr \in PriorSR :
    ~query.called /\ GetSerialFromMaster(master, tt, reply, sr)

SpecQuery == InitQuery /\ [][NextQuery]_vars

\* The apex lookup on any record set, by a caller whose soaret holds the
\* default record or an earlier one.
PriorSoaret == {DefaultRecord, ApexSOA(1, 300), WwwTXT(<<"o">>)}

NextLookup ==
  \E recs \in Inputs, soaret \in PriorSoaret : GetSerialFromRecords(recs, soaret)

SpecLookup == InitQuery /\ [][NextLookup]_vars

\* ------------------------------------------------------------------ claims

\* The whole output of a call on one of the interleaved callers' record sets.
IsSnapshot(lines) ==
  \E recs \in FewRecordSets :
    \E g \in getSerialFromRecords(recs, DefaultRecord) :
      /\ ~g.fault /\ g.soaret.d_content.kind = "SOA"
      /\ lines = SnapshotLines(g.soaret, recs, Zone)

\* What opening a name finds while calls are at work on it is what the spec
\* allows, or nothing.
NameIsWhole(name) ==
  RunningOn(name) # {} => Lookup(dir, inodes, name) \in {NoFile} \cup Allowed(name)

C2Outputs ==
  {wprev[w] : w \in Writers}
    \cup {File(SnapshotLines(wsoa[w], wrecs[w], Zone)) :
            w \in {x \in Writers : wsoa[x].d_content.kind = "SOA"}}

\* C2: when two callers write the same serial S, however their steps
\* interleave, directory/S holds no file, the snapshot that was there before
\* or the complete output of one of the two, never a torn file.
C2_ConcurrentWritersNeverTear ==
  \A v, w \in Writers :
    ( /\ v # w /\ wserial[v] = wserial[w]
      /\ wsoa[v].d_content.kind = "SOA" /\ wsoa[w].d_content.kind = "SOA" )
    => Lookup(dir, inodes, FinalName(wserial[w])) \in {NoFile} \cup C2Outputs

Count(recs, r) == Cardinality({i \in 1..Len(recs) : recs[i] = r})
SameBag(a, b) == \A r \in Range(a) \cup Range(b) : Count(a, r) = Count(b, r)

\* A record set with exactly one SOA record, which is at the apex and
\* carries a serial.
VersionRecords(recs) == {i \in 1..Len(recs) : recs[i].d_type = QType.SOA}
OneVersionRecord(recs) ==
  /\ Cardinality(VersionRecords(recs)) = 1
  /\ \A i \in VersionRecords(recs) :
       recs[i].d_name = RootName /\ recs[i].d_content.kind = "SOA"
SerialOf(recs) == recs[Min(VersionRecords(recs))].d_content.serial

\* The last call of the loader was given this file of the store, to its end.
LoadedWhole(name) ==
  /\ loadResult # "none"
  /\ loadArgs.name = name
  /\ name \in DOMAIN dir => loadArgs.cut = Len(inodes[dir[name]])

\* C3: a record set with exactly one version record, of serial S, written
\* and then loaded from directory/S into an empty record set, loads and
\* comes back equal as a multiset.
C3_RoundTrip ==
  ( /\ OneVersionRecord(input)
    /\ wout[1] = "ok" /\ wrenamed[1]
    /\ LoadedWhole(ToStringUInt(SerialOf(input)))
    /\ loadArgs.had = <<>> )
  => loadResult = "ok" /\ SameBag(records, input)

\* The last call of the loader was given the file the last call of the
\* writer committed, with its input ending after fewer lines than the file has.
LoadedCut ==
  /\ wout[1] = "ok" /\ wrenamed[1]
  /\ loadResult # "none"
  /\ loadArgs.name = FinalName(wserial[1])
  /\ loadArgs.cut < Len(inodes[dir[FinalName(wserial[1])]])

\* C4: a written file whose end comes early, after any of its lines but the
\* last, is rejected by the loader.
C4_TruncationRejected ==
  LoadedCut /\ loadArgs.cut >= 1 => loadResult # "ok"

\* A record set with exactly one apex version record.
OneApexVersionRecord(recs) ==
  /\ Cardinality(EqualRange(recs, RootName, QType.SOA)) = 1
  /\ \A i \in EqualRange(recs, RootName, QType.SOA) : recs[i].d_content.kind = "SOA"

\* C5: a written file that ends right before its last line, the closing
\* version record, is rejected by the loader, which leaves no record.
C5_CutBeforeLastLineRejected ==
  ( /\ OneApexVersionRecord(input)
    /\ LoadedCut
    /\ loadArgs.cut = Len(inodes[dir[FinalName(wserial[1])]]) - 1 )
  => /\ loadResult # "ok"
     /\ loadResult = "not-complete" => records = <<>>

\* C6: when the loader finds the zone not complete, the caller's record set
\* is empty: nothing the caller held or the parse gathered is left.
C6_IncompleteLeavesNothing ==
  loadResult = "not-complete" => records = <<>>

\* C6's case: the caller held a record, the parse took records in, and the
\* zone was found not complete.
C6_Witness ==
  /\ loadResult = "not-complete"
  /\ loadArgs.had # <<>>
  /\ \E i \in 1..loadArgs.cut :
       inodes[dir[loadArgs.name]][i].kind = "rr"
       /\ inodes[dir[loadArgs.name]][i].type # "SOA"

\* A name that is the decimal text of a serial: digits only, no leading zero.
IsCanonical(n) == IsNumber(n) /\ (Len(n) = 1 \/ n[1] # "0")
Candidates(d) ==
  {DigitsValue(n, 0) : n \in {m \in DOMAIN d : IsCanonical(m) /\ DigitsValue(m, 0) <= UIntMax}}
MaxIn(S) == CHOOSE x \in S : \A y \in S : x >= y
Highest(d) == IF Candidates(d) = {} THEN 0 ELSE MaxIn(Candidates(d))

\* C7: getSerialsFromDir returns the highest of the entries whose name is the
\* canonical decimal text of a serial, and 0 when there is none: 10 for
\* {"5", "10", "abc", "3.partial", "007"}, 0 for an empty directory.
C7_HighestCanonicalEntry ==
  scanResult = "ok" => ret = Highest(dir)

\* C8: a call on a record set without an apex version record fails, and
\* neither makes nor replaces a file of the store.
C8_NoVersionRecordNoFile ==
  EqualRange(input, RootName, QType.SOA) = {}
  => DOMAIN dir = {} /\ wout[1] # "ok"

\* C9: a call never returns normally when its rename took no effect (and
\* one whose temporary file cannot be opened ends with an error).
C9_RenameFailureIsReported ==
  \A w \in Writers : wout[w] = "ok" => wrenamed[w]

\* C10: when every call so far ran to completion, the store holds exactly
\* one file per serial written, under the serial's decimal name, each a
\* complete snapshot to the loader, and no <serial>.partial.
C10_OneWholeFilePerSerial ==
  ( /\ Idle
    /\ whist # {}
    /\ \A h \in whist : h.out = "ok" )
  => /\ DOMAIN dir = {ToStringUInt(h.serial) : h \in whist}
     /\ \A name \in DOMAIN dir :
          loadZoneFromDisk(<<>>, inodes[dir[name]], Zone, parserTTL).result = "ok"

\* A text holds another: the parts of one are consecutive parts of the other.
Contains(msg, part) ==
  \E i \in 1..(Len(msg) - Len(part) + 1) : SubSeq(msg, i, i + Len(part) - 1) = part

\* C11: when the reply's rcode is not success the call throws, its message
\* holds the master's address and the rcode's name, no serial is returned
\* (sr is as it was) and the loop over the answers has looked at none.
C11_ErrorReplyThrows ==
  query.called /\ query.reply.rcode # 0
  => /\ query.out.threw
     /\ Contains(query.out.msg, toStringWithPort(query.master))
     /\ Contains(query.out.msg, <<RCodeToS(query.reply.rcode)>>)
     /\ query.out.sr = query.before
     /\ query.out.seen = 0

\* C11's case: a reply that refuses, with an SOA in its answer section.
C11_Witness ==
  /\ query.called /\ query.reply.rcode = 5
  /\ query.reply.answers = <<ApexSOA(5, 3600)>>
  /\ query.out.threw

\* The answers of version type whose content is a version record.
VersionAnswers(answers) ==
  {i \in 1..Len(answers) :
     answers[i].d_type = QType.SOA /\ answers[i].d_content.kind = "SOA"}
FirstVersionSerial(answers) ==
  IF VersionAnswers(answers) = {} THEN 0
  ELSE answers[Min(VersionAnswers(answers))].d_content.serial

\* C12: on a reply with rcode success the call returns the serial of the
\* first answer of type SOA whose content is an SOA, passing over SOA-typed
\* answers whose content is not one, and 0 when there is none (so 0 exactly
\* when there is none or that serial is 0).
C12_FirstVersionAnswer ==
  query.called /\ query.reply.rcode = 0
  => /\ ~query.out.threw
     /\ query.out.ret = FirstVersionSerial(query.reply.answers)

\* C12's case: an SOA-typed answer without SOA content and another record
\* come before the answer whose serial is returned.
C12_Witness ==
  /\ query.called /\ query.reply.rcode = 0
  /\ query.reply.answers = <<OddSOA, ApexNS, ApexSOA(5, 3600)>>
  /\ query.out.ret = 5

\* No record of the set is an SOA at the root name.
NoApexVersion(recs) ==
  \A i \in 1..Len(recs) : ~(recs[i].d_name = RootName /\ recs[i].d_type = QType.SOA)

\* C13: on a record set without a record keyed (root, SOA) the lookup does
\* not fault, returns its not-found value 0 and leaves the caller's soaret
\* as it was.
C13_NotFoundLeavesSoaret ==
  lookup.called /\ NoApexVersion(lookup.recs)
  => /\ ~lookup.out.fault
     /\ lookup.out.serial = 0
     /\ lookup.out.soaret = lookup.before

\* C13's case: the set holds records, an SOA below the apex among them, and
\* the caller's soaret held an earlier record.
C13_Witness ==
  /\ lookup.called
  /\ lookup.recs = <<ApexNS, WwwSOA>>
  /\ lookup.before = ApexSOA(1, 300)
  /\ lookup.out.soaret = ApexSOA(1, 300)

\* The last call of the loader was given a whole file and the parser went
\* through all of it.
LoadedAll ==
  /\ loadResult \in {"ok", "not-complete"}
  /\ loadArgs.name \in DOMAIN dir
  /\ loadArgs.cut = Len(inodes[dir[loadArgs.name]])

\* The record lines of a file, in order.
IsRRLine(l) == l.kind = "rr"
RRLines(lines) == SelectSeq(lines, IsRRLine)
EndsWithVersion(lines) ==
  RRLines(lines) # <<>> /\ RRLines(lines)[Len(RRLines(lines))].type = "SOA"

\* C14: the loader succeeds exactly when the records parsed hold an SOA and
\* the last of them is an SOA; on any other sequence, the empty one
\* included, it ends with "Zone not complete!".
C14_CompleteIffEndsWithVersion ==
  LoadedAll
  => (loadResult = "ok" <=> EndsWithVersion(inodes[dir[loadArgs.name]]))

\* C14's case: a file that opens with an SOA and ends on another record
\* is turned down.
C14_Witness ==
  /\ LoadedAll /\ loadResult = "not-complete"
  /\ Len(RRLines(inodes[dir[loadArgs.name]])) >= 2
  /\ RRLines(inodes[dir[loadArgs.name]])[1].type = "SOA"

\* The record lines of a type, and the records of a type.
LinesOfType(lines, t) ==
  {i \in 1..Len(RRLines(lines)) : TypeToNumber(RRLines(lines)[i].type) = t}
RecordsOfType(recs, t) == {i \in 1..Len(recs) : recs[i].d_type = t}
FirstVersionLine(lines) == RRLines(lines)[Min(LinesOfType(lines, QType.SOA))]
HasOriginLine(lines) == \E i \in 1..Len(lines) : lines[i].kind = "origin"

\* C15: a load that succeeds into an empty record set leaves exactly one
\* record of type SOA, the one of the first SOA line of the file, however
\* many SOA lines follow; and as many records of every other type as the
\* file has lines of it, duplicates included.
C15_FirstVersionOnly ==
  LoadedAll /\ loadResult = "ok" /\ loadArgs.had = <<>>
  => LET lines == inodes[dir[loadArgs.name]]
     IN  /\ Cardinality(RecordsOfType(records, QType.SOA)) = 1
         /\ \A i \in RecordsOfType(records, QType.SOA) :
              /\ records[i].d_content.serial
                   = DigitsValue(FirstVersionLine(lines).content, 0)
              /\ ~HasOriginLine(lines)
                   => records[i].d_name
                        = makeRelative(ParseName(FirstVersionLine(lines).name, Zone), Zone)
         /\ \A t \in TypeCodes \ {QType.SOA} :
              Cardinality(RecordsOfType(records, t))
                = Cardinality(LinesOfType(lines, t))

\* C15's case: a file with three SOA lines of which the first differs from
\* the others, loaded with success.
C15_Witness ==
  /\ LoadedAll /\ loadResult = "ok" /\ loadArgs.had = <<>>
  /\ Cardinality(LinesOfType(inodes[dir[loadArgs.name]], QType.SOA)) = 3
  /\ FirstVersionLine(inodes[dir[loadArgs.name]])
       # RRLines(inodes[dir[loadArgs.name]])[3]

\* A file with the same line twice, neither an SOA line, loaded with success.
C15_WitnessDuplicates ==
  /\ LoadedAll /\ loadResult = "ok" /\ loadArgs.had = <<>>
  /\ \E t \in TypeCodes \ {QType.SOA} : Cardinality(RecordsOfType(records, t)) = 2

\* The file the sequential caller's last call wrote: under the final name
\* when the rename took effect, under the temporary name when not.
WrittenName == IF wrenamed[1] THEN FinalName(wserial[1]) ELSE PartialName(wserial[1])

\* C16: the file of a call that returned holds, after its $ORIGIN line, the
\* apex SOA, then every record of the input in the set's order, then the
\* apex SOA again, and nothing else.
C16_ThreeSegments ==
  wout[1] = "ok"
  => /\ EqualRange(input, RootName, QType.SOA) # {}
     /\ WrittenName \in DOMAIN dir
     /\ LET lines == inodes[dir[WrittenName]]
            apex == input[Min(EqualRange(input, RootName, QType.SOA))]
        IN  /\ Len(lines) = Len(input) + 3
            /\ lines[1] = OriginLine(Zone)
            /\ lines[2] = RenderLine(apex)
            /\ \A i \in 1..Len(input) : lines[i + 2] = RenderLine(input[i])
            /\ lines[Len(lines)] = RenderLine(apex)

\* C16's case: a set whose apex SOA is neither its first nor its only
\* record, written to its end.
C16_Witness ==
  /\ wout[1] = "ok" /\ wrenamed[1]
  /\ Len(input) = 2
  /\ input[1] = ApexNS
  /\ input[2].d_type = QType.SOA

\* C17: asked while calls of the writer are at work, the index takes no
\* <serial>.partial for a serial: a serial it returns that is not 0 names a
\* file under its final name that holds a complete snapshot.
C17_IndexSeesCommittedOnly ==
  scanResult = "ok" /\ ret # 0
  => /\ ToStringUInt(ret) \in DOMAIN dir
     /\ IsSnapshot(inodes[dir[ToStringUInt(ret)]])

\* The lookup's first match is a record keyed (root, SOA) whose content is
\* no SOA content.
OddApexVersion(recs) ==
  /\ EqualRange(recs, RootName, QType.SOA) # {}
  /\ recs[Min(EqualRange(recs, RootName, QType.SOA))].d_content.kind # "SOA"

\* C18: when the record found under (root, SOA) has a content that is no
\* SOA content, the lookup says so and does not fault.
C18_OddContentIsReported ==
  lookup.called /\ OddApexVersion(lookup.recs) => ~lookup.out.fault

\* C19: the file a call commits for the apex serial S, any S of 32 bits, is
\* named by the unsigned decimal text of S; from 2^31 on as well.
C19_UnsignedFileName ==
  wout[1] = "ok" /\ wrenamed[1] /\ OneApexVersionRecord(input)
  => ToStringUInt(input[Min(EqualRange(input, RootName, QType.SOA))].d_content.serial)
       \in DOMAIN dir

\* C20: once calls of the writer have returned, the index gives the highest
\* of the apex serials written so far.
C20_IndexIsHighestWritten ==
  ( /\ Idle /\ scanResult = "ok"
    /\ whist # {}
    /\ \A h \in whist : h.out = "ok" )
  => ret = MaxIn({h.serial : h \in whist})

====
